---- MODULE Spec2Model ----
(***************************************************************************)
(* A model of the usage exporter of deNBI/OS_project_usage_exporter:       *)
(*   - the simulated backend's existence computation                       *)
(*     (dummy_cloud.py, Compute.DummyMachine),                             *)
(*   - the weight lookup (project_usage_exporter.py,                       *)
(*     OpenstackExporter.get_instance_weight),                             *)
(*   - the aggregation (OpenstackExporter.collect_usages),                 *)
(*   - the simulated backend's fixture (dummy_cloud.py, DummyCloud and     *)
(*     Compute.get),                                                       *)
(*   - the polling loop (project_usage_exporter.py, main and               *)
(*     OpenstackExporter.update).                                          *)
(*                                                                         *)
(* Instants are whole hours on one integer axis, so a difference of two    *)
(* instants divided by hour_timedelta is their integer difference.  All    *)
(* instants are naive (no zone offset).  A Python exception is modelled    *)
(* as a result whose status is "raised".                                   *)
(***************************************************************************)
EXTENDS Integers, Sequences, FiniteSets, TLC

VARIABLES
    \* ---- simulated backend (dummy_cloud.py) ----
    toml_machine,          \* the fixture's machine entry
    requested_start_date,  \* the start= instant of the tenant-usage query
    script_start,          \* Compute.script_start
    clock,                 \* the wall clock read by datetime.now()
    server_info,           \* the last answer of get_tenant_usage for the machine
    \* ---- weight lookup ----
    weights,               \* OpenstackExporter.weights
    weight_call,           \* the last call of get_instance_weight and its outcome
    \* ---- aggregation ----
    projects,              \* OpenstackExporter.projects
    simple_vm_tag,         \* OpenstackExporter.simple_vm_tag
    stats_start,           \* OpenstackExporter.stats_start
    cloud,                 \* what cloud.compute.get answers, per project id
    collect_call,          \* the last call of collect_usages and its outcome
    collect_calls,         \* the number of calls of collect_usages so far
    \* ---- simulated backend: the fixture (dummy_cloud.py, DummyCloud) ----
    dummy_file,            \* the content of the fixture file
    dummy_values,          \* Compute.dummy_values: the fixture as last parsed
    cloud_answer,          \* the last query to the simulated backend and its answer
    \* ---- main() and OpenstackExporter.update ----
    args,                  \* the command-line arguments
    pc,                    \* where main() is: "startup", "top", "sleep"
    main_return,           \* whether main() is running, and how it ended
    laps,                  \* main()'s laps
    weight_response,       \* the last answer of the weight endpoint
    update_call,           \* the outcome of the last exporter.update()
    usages,                \* OpenstackExporter.usages
    gauges,                \* the label sets of project_metrics and their values
    iteration,             \* the number of iterations of main()'s loop begun
    attempts               \* the number of requests sent to the weight endpoint

vars == <<toml_machine, requested_start_date, script_start, clock, server_info,
          weights, weight_call, projects, simple_vm_tag, stats_start, cloud,
          collect_call, collect_calls, dummy_file, dummy_values, cloud_answer,
          args, pc, main_return, laps, weight_response, update_call, usages,
          gauges, iteration, attempts>>

backend_vars == <<toml_machine, requested_start_date, script_start, clock, server_info>>
weight_vars == <<weights, weight_call>>
collect_vars == <<projects, simple_vm_tag, stats_start, cloud, collect_call,
                  collect_calls>>
fixture_vars == <<dummy_file, dummy_values, cloud_answer>>
loop_vars == <<args, pc, main_return, laps, weight_response, update_call, usages,
               gauges, iteration, attempts>>

(***************************************************************************)
(* Bounds                                                                  *)
(***************************************************************************)
\* instants range over 0..MaxTime
MaxTime == 3
\* the clock may advance by up to MaxDrift between two reads of datetime.now()
\* inside one call
MaxDrift == 1
\* collect_usages is called up to MaxCalls times on the same inputs
MaxCalls == 2
\* main()'s loop is followed for up to MaxIterations iterations
MaxIterations == 4

Times == 0..MaxTime

(***************************************************************************)
(* Dates as strings                                                        *)
(***************************************************************************)
FmtMicro == "%Y-%m-%dT%H:%M:%S.%f"

\* datetime.strftime: the instant written in the given format
strftime(t, fmt) == [fmt |-> fmt, t |-> t]

\* datetime.strptime: ValueError unless the string is written in the format
strptime_ok(s, fmt) == s.fmt = fmt
strptime(s, fmt) == s.t

(***************************************************************************)
(* dummy_cloud.py: Compute.DummyMachine                                    *)
(***************************************************************************)
\* the existence entry of a fixture machine: a boolean, one datetime, or a
\* list of two datetimes
ExistenceValues ==
    {[type |-> "bool", up |-> b] : b \in BOOLEAN}
    \cup {[type |-> "datetime", at |-> t] : t \in Times}
    \cup {[type |-> "list", first |-> a, second |-> b] : a \in Times, b \in Times}

\* cpus and ram of the fixture machines, valid and invalid
MachineSizes ==
    {[cpus |-> 4, ram |-> 8], [cpus |-> 0, ram |-> 8], [cpus |-> 2, ram |-> 0],
     [cpus |-> -1, ram |-> 8]}

TomlMachines ==
    {[cpus |-> s.cpus, ram |-> s.ram, existence |-> e, instance_id |-> "i1"] :
        s \in MachineSizes, e \in ExistenceValues}

\* a constructor that also refuses a list of two equal datetimes
init_existence_raises_strict(m) ==
    \/ m.cpus <= 0 \/ m.ram <= 0
    \/ (m.existence.type = "list" /\ m.existence.first >= m.existence.second)

\* init_existence_information: TRUE when it raises ValueError
init_existence_raises(m) ==
    \/ m.cpus <= 0 \/ m.ram <= 0
    \/ (m.existence.type = "list" /\ m.existence.first > m.existence.second)

\* init_existence_information: the ExistenceInformation it sets
existence_information(m) ==
    CASE m.existence.type = "list" -> "BETWEEN_DATETIMES"
      [] m.existence.type = "datetime" -> "SINCE_DATETIME"
      [] m.existence.type = "bool" /\ m.existence.up -> "SINCE_SCRIPT_START"
      [] OTHER -> "NO_EXISTENCE"

ram_mb(m) == m.ram * 1024

\* a BETWEEN_DATETIMES machine that keeps counting after its shutdown
between_hours_running(boot, shutdown, req, now) ==
    IF boot > now THEN 0
    ELSE (IF req > boot THEN now - req ELSE now - boot)

\* hours of a BETWEEN_DATETIMES machine (lines 150-171)
between_hours(boot, shutdown, req, now) ==
    IF boot > now THEN 0
    ELSE IF shutdown < now
         THEN (IF req > boot THEN shutdown - req ELSE shutdown - boot)
         ELSE (IF req > boot THEN now - req ELSE now - boot)

\* hours of a SINCE_DATETIME machine (lines 138-149): now is the clock read at
\* line 123, now2 the clock read again at line 142
since_datetime_hours(boot, req, now, now2) ==
    LET hours_existence == IF req > boot THEN now2 - req ELSE now - boot
    IN IF hours_existence > 0 THEN hours_existence ELSE 0

\* a SINCE_SCRIPT_START machine whose hours are clamped at zero
since_script_start_hours_clamped(start, req, now2) ==
    LET hours_existence == IF req > start THEN now2 - req ELSE now2 - start
    IN IF hours_existence > 0 THEN hours_existence ELSE 0

\* hours of a SINCE_SCRIPT_START machine (lines 130-135)
since_script_start_hours(start, req, now2) ==
    IF req > start THEN now2 - req ELSE now2 - start

\* compute_server_info: start_str is the start= string of the query, now the
\* clock read at line 123, now2 a later read of datetime.now()
compute_server_info(m, start_str, start, now, now2) ==
    LET req == strptime(start_str, FmtMicro)
        kind == existence_information(m)
        e == m.existence
        base == [hours |-> 0, vcpus |-> m.cpus, memory_mb |-> ram_mb(m),
                 started_at |-> strftime(start, FmtMicro),
                 instance_id |-> m.instance_id]
    IN CASE kind = "SINCE_SCRIPT_START" ->
              [base EXCEPT !.hours = since_script_start_hours(start, req, now2)]
         [] kind = "NO_EXISTENCE" -> base
         [] kind = "SINCE_DATETIME" ->
              [base EXCEPT !.started_at = strftime(e.at, FmtMicro),
                           !.hours = since_datetime_hours(e.at, req, now, now2)]
         [] OTHER ->
              [base EXCEPT !.started_at = strftime(e.first, FmtMicro),
                           !.hours = between_hours(e.first, e.second, req, now)]

NoInfo == [status |-> "none"]

\* get_tenant_usage for the fixture's machine: construct the DummyMachine and
\* compute its usage record
get_tenant_usage(m, start_str, start, now, now2) ==
    IF init_existence_raises(m) \/ ~strptime_ok(start_str, FmtMicro)
    THEN [status |-> "raised", now |-> now, now2 |-> now2]
    ELSE [status |-> "ok", now |-> now, now2 |-> now2,
          usage |-> compute_server_info(m, start_str, start, now, now2)]

\* Compute.get("/os-simple-tenant-usage/<id>?start=<date>") for the machine
GetTenantUsage ==
    /\ \E drift \in 0..MaxDrift :
          server_info' = get_tenant_usage(toml_machine, requested_start_date,
                                          script_start, clock, clock + drift)
    /\ UNCHANGED <<toml_machine, requested_start_date, script_start, clock>>
    /\ UNCHANGED <<weight_vars, collect_vars, fixture_vars, loop_vars>>

\* time passes
AdvanceClock ==
    /\ clock < MaxTime
    /\ clock' = clock + 1
    /\ UNCHANGED <<toml_machine, requested_start_date, script_start, server_info>>
    /\ UNCHANGED <<weight_vars, collect_vars, fixture_vars, loop_vars>>

(***************************************************************************)
(* project_usage_exporter.py: OpenstackExporter.get_instance_weight        *)
(***************************************************************************)
Max(S) == CHOOSE x \in S : \A y \in S : y <= x
Min(S) == CHOOSE x \in S : \A y \in S : x <= y

\* the metrics of project_metrics and the instance field each one reads
\* (lines 218 and 231: the metric's name without its first and last word)
Metrics == <<"total_vcpus_usage", "total_memory_mb_usage">>
instance_metric(metric) ==
    IF metric = "total_vcpus_usage" THEN "vcpus" ELSE "memory_mb"

\* self.weights: None, or a dict from activation timestamp to
\* {"memory_mb": {threshold: weight}, "vcpus": {threshold: weight}}
NoneWeights == [is_none |-> TRUE, dict |-> <<>>]
DictWeights(d) == [is_none |-> FALSE, dict |-> d]

\* the constructor's table (lines 133-136)
init_weights(vcpu_weights, mb_weights) ==
    DictWeights([ts \in {0} |-> [memory_mb |-> mb_weights, vcpus |-> vcpu_weights]])

Raised == [status |-> "raised"]
Returned(v) == [status |-> "returned", value |-> v]

\* lines 248-251: scanning the timestamps in ascending order, the first one
\* that is not before the instance's start, or the last one
selected_timestamp(timestamps, instance_started_timestamp) ==
    Min({ts \in timestamps :
            instance_started_timestamp <= ts \/ ts = Max(timestamps)})

\* a lookup that takes the first threshold strictly above the amount
selected_key_strict(keys, metric_amount) ==
    Min({key \in keys : metric_amount < key \/ key = Max(keys)})

\* lines 256-258: scanning the thresholds in ascending order, the first one
\* that is not below the amount, or the last one
selected_key(keys, metric_amount) ==
    Min({key \in keys : metric_amount <= key \/ key = Max(keys)})

\* lines 252-262, for the tier set of the selected timestamp
metric_lookup(associated_weights, metric_tag, metric_amount) ==
    IF metric_tag \notin DOMAIN associated_weights THEN Raised    \* KeyError
    ELSE LET metric_weights == associated_weights[metric_tag]
         IN IF DOMAIN metric_weights = {} THEN Raised             \* max([])
            ELSE Returned(metric_weights[selected_key(DOMAIN metric_weights,
                                                      metric_amount)])

\* get_instance_weight (lines 242-268)
get_instance_weight(w, metric_tag, metric_amount, started_date) ==
    IF ~strptime_ok(started_date, FmtMicro) THEN Raised           \* ValueError
    ELSE LET instance_started_timestamp == strptime(started_date, FmtMicro)
         IN IF w.is_none THEN Returned(1)
            ELSE IF DOMAIN w.dict = {} THEN Raised                \* max([])
            ELSE metric_lookup(
                    w.dict[selected_timestamp(DOMAIN w.dict,
                                              instance_started_timestamp)],
                    metric_tag, metric_amount)

\* ---- the tables and arguments the lookup is exercised with ----
Activations == {1, 3}
VcpuThresholds == {2, 8}
MbThresholds == {4096}
WeightValues == {1, 3}

TierTables(thresholds) ==
    UNION {[keys -> WeightValues] : keys \in SUBSET thresholds}

TierSets ==
    {[memory_mb |-> mb, vcpus |-> vc] :
        mb \in TierTables(MbThresholds), vc \in TierTables(VcpuThresholds)}

WeightTables ==
    {NoneWeights}
    \cup {DictWeights(d) :
            d \in UNION {[keys -> TierSets] : keys \in SUBSET Activations}}
    \cup {init_weights(vc, mb) :
            vc \in TierTables(VcpuThresholds), mb \in TierTables(MbThresholds)}

MetricTags == {"vcpus", "memory_mb", "disk_gb"}
Amounts == {1, 2, 4, 9, 4096}

NoCall == [status |-> "none"]

\* one call of get_instance_weight
GetInstanceWeight ==
    /\ \E metric_tag \in MetricTags, metric_amount \in Amounts, t \in Times :
          LET started_date == strftime(t, FmtMicro)
              r == get_instance_weight(weights, metric_tag, metric_amount,
                                       started_date)
          IN weight_call' =
                IF r.status = "raised"
                THEN [status |-> "raised", metric_tag |-> metric_tag,
                      metric_amount |-> metric_amount, started |-> t]
                ELSE [status |-> "returned", metric_tag |-> metric_tag,
                      metric_amount |-> metric_amount, started |-> t,
                      value |-> r.value]
    /\ UNCHANGED weights
    /\ UNCHANGED <<backend_vars, collect_vars, fixture_vars, loop_vars>>

(***************************************************************************)
(* project_usage_exporter.py: OpenstackExporter.collect_usages             *)
(***************************************************************************)
\* add_project (lines 293-305): the OpenstackProject it adds
add_project(id, name, domain_name, domain_id, simple_vm_id) ==
    [id |-> id, name |-> name, domain_name |-> domain_name,
     domain_id |-> domain_id, is_simple_vm_project |-> (id = simple_vm_id)]

\* an aggregation that looks the weight up at the start of the statistics
\* window instead of the instance's own start
instance_usage_window(w, instance, metric_name) ==
    IF "hours" \notin DOMAIN instance THEN Raised
    ELSE IF instance.hours > 0
    THEN IF metric_name \notin DOMAIN instance
              \/ "started_at" \notin DOMAIN instance
         THEN Raised
         ELSE LET metric_amount == instance[metric_name]
                  weight == get_instance_weight(w, metric_name, metric_amount,
                                                strftime(stats_start, FmtMicro))
              IN IF weight.status = "raised" THEN Raised
                 ELSE Returned((instance.hours * metric_amount) * weight.value)
    ELSE Returned(0)

\* an aggregation that sums the records whatever the sign of their hours
instance_usage_signed(w, instance, metric_name) ==
    IF "hours" \notin DOMAIN instance THEN Raised
    ELSE IF metric_name \notin DOMAIN instance
              \/ "started_at" \notin DOMAIN instance
    THEN Raised
    ELSE LET metric_amount == instance[metric_name]
             weight == get_instance_weight(w, metric_name, metric_amount,
                                           instance.started_at)
         IN IF weight.status = "raised" THEN Raised
            ELSE Returned((instance.hours * metric_amount) * weight.value)

\* an aggregation that takes the memory in GiB: memory_mb divided by 1024
instance_usage_gib(w, instance, metric_name) ==
    IF "hours" \notin DOMAIN instance THEN Raised
    ELSE IF instance.hours > 0
    THEN IF metric_name \notin DOMAIN instance
              \/ "started_at" \notin DOMAIN instance
         THEN Raised
         ELSE LET metric_amount == IF metric_name = "memory_mb"
                                   THEN instance[metric_name] \div 1024
                                   ELSE instance[metric_name]
                  weight == get_instance_weight(w, metric_name, metric_amount,
                                                instance.started_at)
              IN IF weight.status = "raised" THEN Raised
                 ELSE Returned((instance.hours * metric_amount) * weight.value)
    ELSE Returned(0)

\* one instance of server_usages in the non-grouping branch (lines 234-237):
\* a missing key raises KeyError, a failing weight lookup its exception
instance_usage(w, instance, metric_name) ==
    IF "hours" \notin DOMAIN instance THEN Raised
    ELSE IF instance.hours > 0
    THEN IF metric_name \notin DOMAIN instance
              \/ "started_at" \notin DOMAIN instance
         THEN Raised
         ELSE LET metric_amount == instance[metric_name]
                  weight == get_instance_weight(w, metric_name, metric_amount,
                                                instance.started_at)
              IN IF weight.status = "raised" THEN Raised
                 ELSE Returned((instance.hours * metric_amount) * weight.value)
    ELSE Returned(0)

\* a grouping that counts every instance in every synthetic project
svm_instance_usage_all(w, instance, metric_name, dict, name) ==
    IF "instance_id" \notin DOMAIN instance
          \/ instance.instance_id \notin DOMAIN dict
    THEN Raised
    ELSE instance_usage(w, instance, metric_name)

\* a grouping that counts an instance in the synthetic projects of the other
\* tag values instead of its own
svm_instance_usage_others(w, instance, metric_name, dict, name) ==
    IF "instance_id" \notin DOMAIN instance
          \/ instance.instance_id \notin DOMAIN dict
    THEN Raised
    ELSE IF dict[instance.instance_id] # name
         THEN instance_usage(w, instance, metric_name)
         ELSE Returned(0)

\* one instance of server_usages in the grouping branch (lines 221-226)
\* (dict is instance_id_to_project_dict, name is simple_vm_project_name)
svm_instance_usage(w, instance, metric_name, dict, name) ==
    IF "instance_id" \notin DOMAIN instance
          \/ instance.instance_id \notin DOMAIN dict
    THEN Raised                                                   \* KeyError
    ELSE IF dict[instance.instance_id] = name
         THEN instance_usage(w, instance, metric_name)
         ELSE Returned(0)

\* total_usage += ... over the instances, in order; raised when one raises
RECURSIVE add_up(_, _)
add_up(results, total_usage) ==
    IF results = <<>> THEN Returned(total_usage)
    ELSE IF Head(results).status = "raised" THEN Raised
    ELSE add_up(Tail(results), total_usage + Head(results).value)

\* lines 229-238: the entry of a non-grouping project
project_totals(w, project_usage) ==
    LET total(metric) ==
            add_up([i \in 1..Len(project_usage.server_usages) |->
                       instance_usage(w, project_usage.server_usages[i],
                                      instance_metric(metric))], 0)
    IN IF \E i \in 1..Len(Metrics) : total(Metrics[i]).status = "raised"
       THEN Raised
       ELSE Returned([metric \in {Metrics[i] : i \in 1..Len(Metrics)} |->
                         total(metric).value])

\* lines 216-227: the entry of one synthetic project
svm_totals(w, project_usage, dict, name) ==
    LET total(metric) ==
            add_up([i \in 1..Len(project_usage.server_usages) |->
                       svm_instance_usage(w, project_usage.server_usages[i],
                                          instance_metric(metric), dict, name)], 0)
    IN IF \E i \in 1..Len(Metrics) : total(Metrics[i]).status = "raised"
       THEN Raised
       ELSE Returned([metric \in {Metrics[i] : i \in 1..Len(Metrics)} |->
                         total(metric).value])

\* lines 204-206: instance id -> tag value, a later server overriding an
\* earlier one of the same id
RECURSIVE tag_dict(_, _, _)
tag_dict(servers, tag, dict) ==
    IF servers = <<>> THEN dict
    ELSE LET instance == Head(servers)
         IN tag_dict(Tail(servers), tag,
                     [id \in DOMAIN dict \cup {instance.id} |->
                        IF id = instance.id THEN instance.metadata[tag]
                        ELSE dict[id]])

\* lines 201-227: the entries of a grouping project
svm_entries(w, project, project_usage, inventory, tag) ==
    IF inventory.kind # "servers" THEN Raised
    ELSE IF \E i \in 1..Len(inventory.servers) :
                 tag \notin DOMAIN inventory.servers[i].metadata
    THEN Raised                                                   \* KeyError
    ELSE LET dict == tag_dict(inventory.servers, tag, <<>>)
             simple_vm_project_names == {dict[id] : id \in DOMAIN dict}
             svm_project(name) ==
                 [id |-> project.id, name |-> name,
                  domain_name |-> project.domain_name,
                  domain_id |-> project.domain_id,
                  is_simple_vm_project |-> TRUE]
         IN IF \E name \in simple_vm_project_names :
                  svm_totals(w, project_usage, dict, name).status = "raised"
            THEN Raised
            ELSE Returned([p \in {svm_project(name) :
                                     name \in simple_vm_project_names} |->
                             svm_totals(w, project_usage, dict, p.name).value])

\* an aggregation that gives a project without tenant usage an entry of zeros
project_entries_zero(w, project, answers, tag) ==
    IF answers.usage.kind = "error" THEN [status |-> "skipped"]
    ELSE IF answers.usage.kind \in {"no_key", "empty"}
    THEN Returned([p \in {project} |->
                      [metric \in {Metrics[i] : i \in 1..Len(Metrics)} |-> 0]])
    ELSE IF project.is_simple_vm_project
    THEN IF tag.is_none THEN [status |-> "skipped"]
         ELSE svm_entries(w, project, answers.usage, answers.servers, tag.name)
    ELSE LET totals == project_totals(w, answers.usage)
         IN IF totals.status = "raised" THEN Raised
            ELSE Returned([p \in {project} |-> totals.value])

\* an aggregation whose totals start from those of the previous call
project_entries_carried(w, project, answers, tag) ==
    LET previous == IF collect_call.status = "returned" THEN collect_call.value
                    ELSE <<>>
        carried(metric) == IF project \in DOMAIN previous
                           THEN previous[project][metric] ELSE 0
    IN IF answers.usage.kind \in {"error", "no_key", "empty"}
       THEN [status |-> "skipped"]
       ELSE IF project.is_simple_vm_project
       THEN IF tag.is_none THEN [status |-> "skipped"]
            ELSE svm_entries(w, project, answers.usage, answers.servers, tag.name)
       ELSE LET totals == project_totals(w, answers.usage)
            IN IF totals.status = "raised" THEN Raised
               ELSE Returned([p \in {project} |->
                                [metric \in DOMAIN totals.value |->
                                    totals.value[metric] + carried(metric)]])

\* lines 176-238: one iteration of the loop over self.projects; "skipped" is
\* the continue of lines 188, 193 and 196
project_entries(w, project, answers, tag) ==
    IF answers.usage.kind \in {"error", "no_key", "empty"}
    THEN [status |-> "skipped"]
    ELSE IF project.is_simple_vm_project
    THEN IF tag.is_none THEN [status |-> "skipped"]
         ELSE svm_entries(w, project, answers.usage, answers.servers, tag.name)
    ELSE LET totals == project_totals(w, answers.usage)
         IN IF totals.status = "raised" THEN Raised
            ELSE Returned([p \in {project} |-> totals.value])

\* collect_usages (lines 168-240), the projects taken in the given order
RECURSIVE collect_usages(_, _, _, _, _)
collect_usages(w, order, answers, tag, project_usages) ==
    IF order = <<>> THEN Returned(project_usages)
    ELSE LET entries == project_entries(w, Head(order), answers[Head(order).id], tag)
         IN IF entries.status = "raised" THEN Raised
            ELSE collect_usages(w, Tail(order), answers, tag,
                                IF entries.status = "skipped" THEN project_usages
                                ELSE entries.value @@ project_usages)

\* ---- the answers of the backend the aggregation is exercised with ----
\* hours of a usage record range over -1..MaxHours
MaxHours == 1
HourValues == -1..MaxHours

Flavors == {[vcpus |-> 1, memory_mb |-> 1024], [vcpus |-> 4, memory_mb |-> 8192]}
StartedValues == {0, 2}
InstanceIds == <<"i1", "i2">>
InstanceKeys == {"instance_id", "hours", "vcpus", "memory_mb", "started_at"}

usage_record(id, hours, flavor, started) ==
    [instance_id |-> id, hours |-> hours, vcpus |-> flavor.vcpus,
     memory_mb |-> flavor.memory_mb,
     started_at |-> strftime(started, FmtMicro)]

without_key(record, key) == [k \in DOMAIN record \ {key} |-> record[k]]

\* the usage records of instance id: complete ones, and malformed ones that
\* lack one key
UsageRecords(id) ==
    {usage_record(id, h, f, s) :
        h \in HourValues, f \in Flavors, s \in StartedValues}
    \cup {without_key(usage_record(id, 1, [vcpus |-> 4, memory_mb |-> 8192], 2), key) :
            key \in InstanceKeys}

ServerUsages ==
    {<<>>}
    \cup {<<r>> : r \in UsageRecords(InstanceIds[1])}
    \cup {<<r1, r2>> : r1 \in UsageRecords(InstanceIds[1]),
                       r2 \in UsageRecords(InstanceIds[2])}

\* the answers to /os-simple-tenant-usage/<id>: the request fails, the payload
\* has no tenant_usage, tenant_usage is empty, or it lists server_usages
UsageAnswers ==
    {[kind |-> "error"], [kind |-> "no_key"], [kind |-> "empty"]}
    \cup {[kind |-> "usage", server_usages |-> su] : su \in ServerUsages}

TagKey == "project_name"
TagValues == {"sub-a", "sub-b", "proj"}
Metadatas == {<<>>} \cup {[k \in {TagKey} |-> v] : v \in TagValues}

\* the answers to /servers/detail: the servers of a subset of the instances
Inventories ==
    {[kind |-> "servers", servers |-> <<>>]}
    \cup {[kind |-> "servers", servers |-> <<[id |-> id, metadata |-> m]>>] :
            id \in {InstanceIds[1], InstanceIds[2]}, m \in Metadatas}
    \cup {[kind |-> "servers",
           servers |-> <<[id |-> InstanceIds[1], metadata |-> m1],
                         [id |-> InstanceIds[2], metadata |-> m2]>>] :
            m1 \in Metadatas, m2 \in Metadatas}

NoTag == [is_none |-> TRUE]
Tag(name) == [is_none |-> FALSE, name |-> name]

\* the projects the cloud lists
ListedProjects ==
    {[id |-> "p1", name |-> "proj", domain_id |-> "d1"],
     [id |-> "p2", name |-> "other", domain_id |-> "d1"]}
DomainName(domain_id) == "elixir"

\* the second project's answers
OtherAnswers ==
    {[kind |-> "error"], [kind |-> "no_key"], [kind |-> "empty"],
     [kind |-> "usage",
      server_usages |-> <<usage_record("i9", 1, [vcpus |-> 1, memory_mb |-> 1024], 0)>>]}

\* the weight tables of the aggregation: none, the constructor's table for the
\* default (empty) command-line weights, and a table of two activations
MbTiers == {1024, 4096}
TwoShards ==
    DictWeights([ts \in Activations |->
        IF ts = Min(Activations)
        THEN [memory_mb |-> [k \in MbTiers |-> IF k = 1024 THEN 1 ELSE 2],
              vcpus |-> [k \in VcpuThresholds |-> IF k = 2 THEN 1 ELSE 3]]
        ELSE [memory_mb |-> [k \in MbTiers |-> IF k = 1024 THEN 3 ELSE 4],
              vcpus |-> [k \in VcpuThresholds |-> IF k = 2 THEN 3 ELSE 5]]])
CollectWeightTables == {NoneWeights, init_weights(<<>>, <<>>), TwoShards}

NoCollect == [status |-> "none"]

\* one call of collect_usages (the loop over the set self.projects runs in
\* some order)
CollectUsages ==
    /\ collect_calls < MaxCalls
    /\ collect_calls' = collect_calls + 1
    /\ \E order \in {o \in [1..Cardinality(projects) -> projects] :
                        \A i, j \in DOMAIN o : i # j => o[i] # o[j]} :
          collect_call' = collect_usages(weights, order, cloud, simple_vm_tag, <<>>)
    /\ UNCHANGED <<projects, simple_vm_tag, stats_start, cloud, weights, weight_call>>
    /\ UNCHANGED <<backend_vars, fixture_vars, loop_vars>>

(***************************************************************************)
(* dummy_cloud.py: DummyCloud and Compute.get                              *)
(***************************************************************************)
\* The fixture has one domain; its file is the list of the domain's project
\* tables, each with one machine.
FixtureDomain == [name |-> "elixir", id |-> "d1"]

FixtureMachines ==
    {[cpus |-> 4, ram |-> 8, existence |-> [type |-> "bool", up |-> b],
      instance_id |-> "i1", metadata |-> [k \in {TagKey} |-> "sub-a"]] :
        b \in BOOLEAN}

fixture_project(id, name, machine) ==
    [project_id |-> id, project_name |-> name, machines |-> <<machine>>]

Fixtures ==
    {<<>>}
    \cup {<<fixture_project("p1", "proj", m)>> : m \in FixtureMachines}
    \cup {<<fixture_project("p1", "proj", m1), fixture_project("p2", "other", m2)>> :
            m1 \in FixtureMachines, m2 \in FixtureMachines}

\* toml.loads of the file's content: the domain's table
toml_loads(content) == [domain_id |-> FixtureDomain.id, projects |-> content]

\* DummyCloud.list_projects after its load_toml (lines 35-45)
list_projects(values) ==
    [i \in DOMAIN values.projects |->
        [id |-> values.projects[i].project_id,
         name |-> values.projects[i].project_name]]

\* DummyCloud.get_domain after its load_toml (lines 49-53)
get_domain(values, name_or_id) ==
    IF FixtureDomain.name = name_or_id \/ values.domain_id = name_or_id
    THEN [is_none |-> FALSE, id |-> values.domain_id, name |-> FixtureDomain.name]
    ELSE [is_none |-> TRUE]

\* Compute.get_server_details (lines 207-215) for a project's machines
get_server_details(project) ==
    [kind |-> "servers",
     servers |-> [i \in DOMAIN project.machines |->
                    [id |-> project.machines[i].instance_id,
                     metadata |-> project.machines[i].metadata]]]

\* the paths a query may have: the tenant usage, the server details as
\* Compute matches them (all_tenants=false), and the server details as the
\* exporter asks for them (all_tenants=true)
Paths == {"/os-simple-tenant-usage/", "/servers/detail?all_tenants=false",
          "/servers/detail?all_tenants=true"}
QueriedIds == {"p1", "p2", "p3"}

\* Compute.get (lines 217-245): the payload for the url, {} when no project
\* of dummy_values has the id or the url is not recognised
compute_get(values, url, start_str, start, now) ==
    LET found == {i \in DOMAIN values.projects :
                     values.projects[i].project_id = url.project_id}
        project == values.projects[Min(found)]
    IN IF url.path = "/os-simple-tenant-usage/" /\ found # {}
       THEN [kind |-> "usage",
             server_usages |->
                [i \in DOMAIN project.machines |->
                    get_tenant_usage(project.machines[i], start_str, start,
                                     now, now).usage]]
       ELSE IF url.path = "/servers/detail?all_tenants=false" /\ found # {}
       THEN get_server_details(project)
       ELSE [kind |-> "no_key"]

\* what a query answers on the parsed fixture
answer(values, query) ==
    CASE query.call = "list_projects" -> list_projects(values)
      [] query.call = "get_domain" -> get_domain(values, query.name_or_id)
      [] OTHER -> compute_get(values, query.url, requested_start_date,
                              script_start, clock)

NoAnswer == [query |-> [call |-> "none"]]

\* the fixture file is edited
EditFixture ==
    /\ \E content \in Fixtures \ {dummy_file} : dummy_file' = content
    /\ UNCHANGED <<dummy_values, cloud_answer>>
    /\ UNCHANGED <<backend_vars, weight_vars, collect_vars, loop_vars>>

\* DummyCloud.list_projects (lines 33-45), load_toml included
ListProjects ==
    /\ dummy_values' = toml_loads(dummy_file)
    /\ LET query == [call |-> "list_projects"]
       IN cloud_answer' = [query |-> query, value |-> answer(dummy_values', query)]
    /\ UNCHANGED dummy_file
    /\ UNCHANGED <<backend_vars, weight_vars, collect_vars, loop_vars>>

\* DummyCloud.get_domain (lines 47-53), load_toml included
GetDomain ==
    /\ dummy_values' = toml_loads(dummy_file)
    /\ \E name_or_id \in {"elixir", "d1", "d2"} :
          LET query == [call |-> "get_domain", name_or_id |-> name_or_id]
          IN cloud_answer' = [query |-> query, value |-> answer(dummy_values', query)]
    /\ UNCHANGED dummy_file
    /\ UNCHANGED <<backend_vars, weight_vars, collect_vars, loop_vars>>

\* Compute.get (lines 217-245): it answers from Compute.dummy_values
ComputeGet ==
    /\ \E path \in Paths, id \in QueriedIds :
          LET query == [call |-> "compute.get",
                        url |-> [path |-> path, project_id |-> id]]
          IN cloud_answer' = [query |-> query, value |-> answer(dummy_values, query)]
    /\ UNCHANGED <<dummy_file, dummy_values>>
    /\ UNCHANGED <<backend_vars, weight_vars, collect_vars, loop_vars>>

(***************************************************************************)
(* project_usage_exporter.py: main() and OpenstackExporter.update          *)
(***************************************************************************)
\* ---- the refresh of the weights (main, lines 613-627) ----
\* {y['value']: y['weight'] for y in tiers}: KeyError on a tier without one
\* of the two keys, a later tier overriding an earlier one of the same value
RECURSIVE tier_dict(_, _)
tier_dict(tiers, dict) ==
    IF tiers = <<>> THEN Returned(dict)
    ELSE LET y == Head(tiers)
         IN IF ~({"value", "weight"} \subseteq DOMAIN y) THEN Raised
            ELSE tier_dict(Tail(tiers),
                           [v \in DOMAIN dict \cup {y.value} |->
                              IF v = y.value THEN y.weight ELSE dict[v]])

\* one item of the comprehension of lines 616-619
resource_set(x) ==
    IF ~({"resource_set_timestamp", "memory_mb", "vcpus"} \subseteq DOMAIN x)
    THEN Raised
    ELSE LET memory_mb == tier_dict(x.memory_mb, <<>>)
             vcpus == tier_dict(x.vcpus, <<>>)
         IN IF memory_mb.status = "raised" \/ vcpus.status = "raised" THEN Raised
            ELSE Returned([memory_mb |-> memory_mb.value, vcpus |-> vcpus.value])

\* current_weights (lines 616-619) over the entries of the response
RECURSIVE current_weights(_, _)
current_weights(entries, dict) ==
    IF entries = <<>> THEN Returned(dict)
    ELSE LET x == Head(entries)
             set == resource_set(x)
         IN IF set.status = "raised" THEN Raised
            ELSE current_weights(Tail(entries),
                    [ts \in DOMAIN dict \cup {x.resource_set_timestamp} |->
                        IF ts = x.resource_set_timestamp THEN set.value
                        ELSE dict[ts]])

\* the resource sets built before the first entry that fails
RECURSIVE built_before_failure(_, _)
built_before_failure(entries, dict) ==
    IF entries = <<>> THEN dict
    ELSE LET x == Head(entries)
             set == resource_set(x)
         IN IF set.status = "raised" THEN dict
            ELSE built_before_failure(Tail(entries),
                    [ts \in DOMAIN dict \cup {x.resource_set_timestamp} |->
                        IF ts = x.resource_set_timestamp THEN set.value
                        ELSE dict[ts]])

\* a refresh that commits each resource set as soon as it is built
refresh_weights_partial(w, response) ==
    IF response.kind # "json" THEN w
    ELSE LET built == current_weights(response.entries, <<>>)
         IN IF built.status = "raised"
            THEN DictWeights(built_before_failure(response.entries,
                                                  IF w.is_none THEN <<>> ELSE w.dict))
            ELSE DictWeights(built.value)

\* lines 614-626: the weights after the try block; the request or the
\* parsing of its answer may raise, as may the comprehension
refresh_weights(w, response) ==
    IF response.kind # "json" THEN w
    ELSE LET built == current_weights(response.entries, <<>>)
         IN IF built.status = "raised" THEN w
            ELSE DictWeights(built.value)                  \* update_weights

\* the entries of a weight response: two complete resource sets, one without
\* vcpus, one with a tier without weight
WeightEntry(ts, w) ==
    [resource_set_timestamp |-> ts,
     memory_mb |-> <<[value |-> 1024, weight |-> w]>>,
     vcpus |-> <<[value |-> 2, weight |-> w], [value |-> 8, weight |-> w + 2]>>]
WeightEntries ==
    {WeightEntry(1, 1), WeightEntry(3, 3),
     without_key(WeightEntry(3, 3), "vcpus"),
     [WeightEntry(3, 3) EXCEPT !.memory_mb = <<[value |-> 1024]>>]}

\* the answers of the weight endpoint: the request fails, the body is not
\* JSON, or it is a list of up to two entries
WeightResponses ==
    {[kind |-> "unreachable"], [kind |-> "not_json"],
     [kind |-> "json", entries |-> <<>>]}
    \cup {[kind |-> "json", entries |-> <<x>>] : x \in WeightEntries}
    \cup {[kind |-> "json", entries |-> <<x1, x2>>] :
            x1 \in WeightEntries, x2 \in WeightEntries}

\* ---- OpenstackExporter.update (lines 148-166) ----
\* the domains of the cloud
Domains == {[id |-> "d1", name |-> DomainName("d1")]}

\* cloud.get_domain(name_or_id): the domain of that name or id, none if
\* there is no such domain
cloud_get_domain(name_or_id) ==
    {d \in Domains : d.name = name_or_id \/ d.id = name_or_id}

\* cloud.list_projects(domain_id=...) over the projects the cloud lists
cloud_list_projects(listed, domain_id) == {p \in listed : p.domain_id = domain_id}

\* collect_projects (lines 270-290) for an exporter built with the domain id
\* self_domain_id ("" when not given) and the domain names self_domains
collect_projects(self_domain_id, self_domains, listed, simple_vm_id) ==
    IF self_domain_id # ""
    THEN {add_project(p.id, p.name, self_domain_id, "UNKNOWN", simple_vm_id) :
             p \in cloud_list_projects(listed, self_domain_id)}              \* 273-274
    ELSE IF self_domains # {}
    THEN UNION {{add_project(p.id, p.name, self_domain_id, domain.name, simple_vm_id) :
                    p \in cloud_list_projects(listed, domain.id)} :          \* 284-285
                   domain \in UNION {cloud_get_domain(domain_name) :
                                        domain_name \in self_domains}}      \* 276-283
    ELSE {add_project(p.id, p.name, p.domain_id, DomainName(p.domain_id),
                      simple_vm_id) : p \in listed}                          \* 287-289

\* the label set of a project's gauges (lines 161-166)
labels(project) ==
    [project_id |-> project.id, project_name |-> project.name,
     domain_name |-> project.domain_name, domain_id |-> project.domain_id]

\* a set_metrics that publishes the result of the cycle and nothing else
set_metrics_reset(g, u) ==
    [l \in {labels(p) : p \in DOMAIN u} |-> u[CHOOSE p \in DOMAIN u : labels(p) = l]]

\* set_metrics (lines 158-166): every project of the result sets its label
\* set in every gauge; the other label sets keep their values
set_metrics(g, u) ==
    [l \in DOMAIN g \cup {labels(p) : p \in DOMAIN u} |->
        IF \E p \in DOMAIN u : labels(p) = l
        THEN u[CHOOSE p \in DOMAIN u : labels(p) = l]
        ELSE g[l]]

\* what collect_usages has put in project_usages when it raises
RECURSIVE usages_before_abort(_, _, _, _, _)
usages_before_abort(w, order, answers, tag, project_usages) ==
    IF order = <<>> THEN project_usages
    ELSE LET entries == project_entries(w, Head(order), answers[Head(order).id], tag)
         IN IF entries.status = "raised" THEN project_usages
            ELSE usages_before_abort(w, Tail(order), answers, tag,
                                     IF entries.status = "skipped" THEN project_usages
                                     ELSE entries.value @@ project_usages)

\* an update that publishes what was collected before the aggregation raised
update_result_partial(ps, order, answers) ==
    LET call == collect_usages(weights, order, answers, simple_vm_tag, <<>>)
        partial == usages_before_abort(weights, order, answers, simple_vm_tag, <<>>)
    IN IF call.status = "raised"
       THEN [status |-> "raised", projects |-> ps, collect_call |-> call,
             usages |-> usages, gauges |-> set_metrics(gauges, partial)]
       ELSE [status |-> "returned", projects |-> ps, collect_call |-> call,
             usages |-> call.value, gauges |-> set_metrics(gauges, call.value)]

\* lines 149-153 once collect_projects has returned ps: the fields of the
\* exporter and the gauges after update(), and whether it raised
update_result(ps, order, answers) ==
    LET call == collect_usages(weights, order, answers, simple_vm_tag, <<>>)
    IN IF call.status = "raised"
       THEN [status |-> "raised", projects |-> ps, collect_call |-> call,
             usages |-> usages, gauges |-> gauges]
       ELSE [status |-> "returned", projects |-> ps, collect_call |-> call,
             usages |-> call.value, gauges |-> set_metrics(gauges, call.value)]

\* update() (lines 148-153) against a backend that lists the projects or is
\* unreachable: its possible outcomes, one per iteration order of the set
update_outcomes(listing, answers) ==
    IF listing.status # "ok"
    THEN {[status |-> "raised", projects |-> projects, collect_call |-> collect_call,
           usages |-> usages, gauges |-> gauges]}
    ELSE LET ps == collect_projects(args.domain_id, args.domain, listing.projects,
                                    args.simple_vm_id)
         IN {update_result(ps, order, answers) :
                order \in {o \in [1..Cardinality(ps) -> ps] :
                              \A i, j \in DOMAIN o : i # j => o[i] # o[j]}}

\* ---- what the backend answers in a cycle ----
LoopRecord(id, hours) == usage_record(id, hours, [vcpus |-> 4, memory_mb |-> 8192], 0)
LoopAnswers ==
    {[p1 |-> [usage |-> a1, servers |-> [kind |-> "servers", servers |-> <<>>]],
      p2 |-> [usage |-> a2, servers |-> [kind |-> "servers", servers |-> <<>>]]] :
        a1 \in {[kind |-> "empty"],
                [kind |-> "usage", server_usages |-> <<LoopRecord("i1", 1)>>],
                [kind |-> "usage",
                 server_usages |-> <<LoopRecord("i1", 1), LoopRecord("i2", 2)>>],
                [kind |-> "usage",
                 server_usages |-> <<LoopRecord("i1", 1),
                                     without_key(LoopRecord("i2", 2), "vcpus")>>]},
        a2 \in {[kind |-> "error"],
                [kind |-> "usage", server_usages |-> <<LoopRecord("i9", 1)>>],
                [kind |-> "usage",
                 server_usages |-> <<without_key(LoopRecord("i9", 1), "vcpus")>>]}}
Listings == {[status |-> "unreachable"], [status |-> "ok", projects |-> ListedProjects]}

Exited(code) == [status |-> "exited", code |-> code]
Running == main_return.status = "running"

\* ---- main() ----
\* lines 600-611: the exporter is constructed (connect, then the first
\* update) and the loop is entered; a failure ends the process
Startup ==
    /\ Running /\ pc = "startup"
    /\ \E connected \in BOOLEAN, listing \in Listings, answers \in LoopAnswers :
          IF ~connected
          THEN /\ main_return' = Exited(1)
               /\ UNCHANGED <<pc, laps, update_call, usages, gauges, projects,
                              cloud, collect_call>>
          ELSE \E out \in update_outcomes(listing, answers) :
                  /\ update_call' = [status |-> out.status]
                  /\ projects' = out.projects
                  /\ collect_call' = out.collect_call
                  /\ usages' = out.usages
                  /\ gauges' = out.gauges
                  /\ cloud' = answers
                  /\ IF out.status = "raised"
                     THEN main_return' = Exited(1) /\ UNCHANGED <<pc, laps>>
                     ELSE /\ pc' = "top"
                          /\ laps' = args.weight_update_frequency
                          /\ UNCHANGED main_return
    /\ UNCHANGED <<args, weights, weight_response, weight_call, simple_vm_tag,
                   stats_start, collect_calls, iteration, attempts>>
    /\ UNCHANGED <<backend_vars, fixture_vars>>

\* an off-by-one test of the lap counter
refresh_due_late(l, a) ==
    l > a.weight_update_frequency /\ a.weight_update_endpoint # ""

\* line 613: whether this iteration refreshes the weights
refresh_due(l, a) ==
    l >= a.weight_update_frequency /\ a.weight_update_endpoint # ""

\* lines 613-629: the weights are refreshed when laps has reached the
\* frequency and an endpoint is set; laps is counted
RefreshWeights ==
    /\ Running /\ pc = "top"
    /\ iteration < MaxIterations
    /\ iteration' = iteration + 1
    /\ IF refresh_due(laps, args)
       THEN \E response \in WeightResponses :
               /\ weight_response' = response
               /\ weights' = refresh_weights(weights, response)
               /\ attempts' = attempts + 1
               /\ laps' = 0 + 1                       \* lines 627 and 629
       ELSE /\ laps' = IF args.weight_update_endpoint # "" THEN laps + 1 ELSE laps
            /\ UNCHANGED <<weights, weight_response, attempts>>
    /\ pc' = "sleep"
    /\ UNCHANGED <<args, main_return, update_call, usages, gauges, weight_call>>
    /\ UNCHANGED <<backend_vars, collect_vars, fixture_vars>>

\* lines 630-640: sleep, then update(); an exception of update() is logged
\* and main returns 1
SleepAndUpdate ==
    /\ Running /\ pc = "sleep"
    /\ \E listing \in Listings, answers \in LoopAnswers :
          \E out \in update_outcomes(listing, answers) :
              /\ update_call' = [status |-> out.status]
              /\ projects' = out.projects
              /\ collect_call' = out.collect_call
              /\ usages' = out.usages
              /\ gauges' = out.gauges
              /\ cloud' = answers
              /\ IF out.status = "raised"
                 THEN main_return' = Exited(1) /\ UNCHANGED pc
                 ELSE pc' = "top" /\ UNCHANGED main_return
    /\ UNCHANGED <<args, laps, weights, weight_response, weight_call,
                   simple_vm_tag, stats_start, collect_calls, iteration, attempts>>
    /\ UNCHANGED <<backend_vars, fixture_vars>>

\* lines 633-635: Ctrl-c during the sleep
KeyboardInterrupt ==
    /\ Running /\ pc = "sleep"
    /\ main_return' = Exited(0)
    /\ UNCHANGED <<args, pc, laps, weight_response, update_call, usages, gauges,
                   iteration, attempts>>
    /\ UNCHANGED <<backend_vars, weight_vars, collect_vars, fixture_vars>>

(***************************************************************************)
(* Specifications                                                          *)
(***************************************************************************)
IdleBackend ==
    /\ toml_machine = [cpus |-> 4, ram |-> 8,
                       existence |-> [type |-> "bool", up |-> TRUE],
                       instance_id |-> "i1"]
    /\ requested_start_date = strftime(0, FmtMicro)
    /\ script_start = 0
    /\ clock = 0
    /\ server_info = NoInfo

IdleFixture ==
    /\ dummy_file = <<>>
    /\ dummy_values = toml_loads(<<>>)
    /\ cloud_answer = NoAnswer

NoResponse == [kind |-> "none"]
NoUpdate == [status |-> "none"]

IdleLoop ==
    /\ args = [weight_update_frequency |-> 1, weight_update_endpoint |-> "",
               domain_id |-> "", domain |-> {},
               simple_vm_id |-> "", vcpu_weights |-> <<>>, mb_weights |-> <<>>]
    /\ pc = "startup"
    /\ main_return = [status |-> "running"]
    /\ laps = 0
    /\ weight_response = NoResponse
    /\ update_call = NoUpdate
    /\ usages = <<>>
    /\ gauges = <<>>
    /\ iteration = 0
    /\ attempts = 0

IdleCollect ==
    /\ projects = {}
    /\ simple_vm_tag = NoTag
    /\ stats_start = 0
    /\ cloud = <<>>
    /\ collect_call = NoCollect
    /\ collect_calls = 0

\* the simulated backend answering tenant-usage queries for one machine
InitBackend ==
    /\ toml_machine \in TomlMachines
    /\ requested_start_date \in {strftime(t, FmtMicro) : t \in Times}
    /\ script_start \in Times
    /\ clock = 0
    /\ server_info = NoInfo
    /\ weights = NoneWeights
    /\ weight_call = NoCall
    /\ IdleCollect
    /\ IdleFixture
    /\ IdleLoop

NextBackend == GetTenantUsage \/ AdvanceClock

SpecBackend == InitBackend /\ [][NextBackend]_vars

\* the weight lookup on every table
InitWeights ==
    /\ weights \in WeightTables
    /\ weight_call = NoCall
    /\ IdleBackend
    /\ IdleCollect
    /\ IdleFixture
    /\ IdleLoop

NextWeights == GetInstanceWeight

SpecWeights == InitWeights /\ [][NextWeights]_vars

\* the aggregation over two projects
InitCollect ==
    \* collect_projects with neither a domain id nor domain names (line 289)
    /\ \E simple_vm_id \in {"", "p1"} :
          projects = {add_project(p.id, p.name, p.domain_id, DomainName(p.domain_id),
                                  simple_vm_id) : p \in ListedProjects}
    /\ simple_vm_tag \in {NoTag, Tag(TagKey)}
    /\ stats_start = 0
    /\ \E a1 \in UsageAnswers, a2 \in OtherAnswers, inv \in Inventories :
          /\ cloud = [id \in {"p1", "p2"} |->
                        [usage |-> IF id = "p1" THEN a1 ELSE a2,
                         servers |-> IF id = "p1" THEN inv
                                     ELSE [kind |-> "servers", servers |-> <<>>]]]
          \* the inventory is only asked for a grouping project with a tag
          /\ (\A p \in projects : ~p.is_simple_vm_project) \/ simple_vm_tag.is_none
                => inv = [kind |-> "servers", servers |-> <<>>]
          /\ (\A p \in projects : ~p.is_simple_vm_project)
                => simple_vm_tag = Tag(TagKey)
    /\ collect_call = NoCollect
    /\ collect_calls = 0
    /\ weights \in CollectWeightTables
    /\ weight_call = NoCall
    /\ IdleBackend
    /\ IdleFixture
    /\ IdleLoop

NextCollect == CollectUsages

SpecCollect == InitCollect /\ [][NextCollect]_vars

\* the simulated backend queried while its fixture is edited
\* (DummyCloud.__init__, lines 19-26)
InitFixture ==
    /\ dummy_file \in Fixtures
    /\ dummy_values = toml_loads(dummy_file)
    /\ cloud_answer = NoAnswer
    /\ toml_machine = [cpus |-> 4, ram |-> 8,
                       existence |-> [type |-> "bool", up |-> TRUE],
                       instance_id |-> "i1"]
    /\ requested_start_date = strftime(0, FmtMicro)
    /\ script_start = 0
    /\ clock = MaxTime
    /\ server_info = NoInfo
    /\ weights = NoneWeights
    /\ weight_call = NoCall
    /\ IdleCollect
    /\ IdleLoop

\* main() of the exporter against a real cloud (lines 589-611): the arguments
\* are parsed, the exporter's fields are those __init__ gives them
MaxFrequency == 2
WeightArgs ==
    {[vcpus |-> <<>>, mb |-> <<>>],
     [vcpus |-> [k \in VcpuThresholds |-> IF k = 2 THEN 1 ELSE 3],
      mb |-> [k \in MbTiers |-> IF k = 1024 THEN 1 ELSE 2]]}

\* main() up to the construction of the exporter (lines 484-608), with the
\* arguments given
LoopStart(frequency, endpoint, w, domain_id, domain) ==
    /\ args = [weight_update_frequency |-> frequency,
               weight_update_endpoint |-> endpoint,
               domain_id |-> domain_id, domain |-> domain,
               simple_vm_id |-> "", vcpu_weights |-> w.vcpus, mb_weights |-> w.mb]
    /\ weights = init_weights(args.vcpu_weights, args.mb_weights)
    /\ pc = "startup"
    /\ main_return = [status |-> "running"]
    /\ laps = 0
    /\ weight_response = NoResponse
    /\ update_call = NoUpdate
    /\ usages = <<>>
    /\ gauges = <<>>
    /\ iteration = 0
    /\ attempts = 0
    /\ weight_call = NoCall
    /\ projects = {}
    /\ simple_vm_tag = Tag(TagKey)
    /\ stats_start = 0
    /\ cloud = <<>>
    /\ collect_call = NoCollect
    /\ collect_calls = 0
    /\ IdleBackend
    /\ IdleFixture

\* the exporter is run with neither a domain id nor domain names
InitLoop ==
    \E frequency \in 1..MaxFrequency, endpoint \in {"", "http://weights"},
       w \in WeightArgs :
       LoopStart(frequency, endpoint, w, "", {})

\* the domain names --domain can give: the cloud's domain, and one it lacks
DomainNames == {DomainName("d1"), "nodomain"}

\* the exporter is run with or without a domain id and domain names, and
\* without a weight endpoint
InitDomains ==
    \E domain_id \in {"", "d1"}, domain \in SUBSET DomainNames, w \in WeightArgs :
       LoopStart(1, "", w, domain_id, domain)

NextLoop == Startup \/ RefreshWeights \/ SleepAndUpdate \/ KeyboardInterrupt

SpecLoop == InitLoop /\ [][NextLoop]_vars

SpecDomains == InitDomains /\ [][NextLoop]_vars

NextFixture == EditFixture \/ ListProjects \/ GetDomain \/ ComputeGet

SpecFixture == InitFixture /\ [][NextFixture]_vars

(***************************************************************************)
(* The simulated backend's hours (SpecBackend)                             *)
(***************************************************************************)
Answered == server_info.status = "ok"
Kind == existence_information(toml_machine)
WindowStart == strptime(requested_start_date, FmtMicro)

\* C1: the hours reported for a SinceInstant machine, or for a Between machine
\* with boot <= shutdown, are never negative, whatever the start of the
\* window, the start of the process and the clock are.
C1_HoursNeverNegative ==
    (Answered /\ Kind \in {"SINCE_DATETIME", "BETWEEN_DATETIMES"})
        => server_info.usage.hours >= 0

\* C2: for a Between(boot, shutdown) machine and a fixed start of the window,
\* from one query to a later one the hours do not decrease while the clock is
\* before shutdown, stay the same once it has reached shutdown, and are zero
\* whenever the clock is not after boot.
C2_BetweenMonotone ==
    [][(server_info'.status = "ok" /\ Kind = "BETWEEN_DATETIMES") =>
          LET boot == toml_machine.existence.first
              shutdown == toml_machine.existence.second
              later == server_info'
          IN /\ later.now <= boot => later.usage.hours = 0
             /\ (Answered /\ server_info.now <= later.now /\ later.now < shutdown)
                   => server_info.usage.hours <= later.usage.hours
             /\ (Answered /\ shutdown <= server_info.now
                          /\ server_info.now <= later.now)
                   => server_info.usage.hours = later.usage.hours]_vars

\* the by-variant definition of the hours at the instant now
HoursAt(now) ==
    LET e == toml_machine.existence
        later(a, b) == IF a > b THEN a ELSE b
    IN CASE Kind = "NO_EXISTENCE" -> 0
         [] Kind = "SINCE_DATETIME" ->
              later(0, now - later(WindowStart, e.at))
         [] OTHER ->
              IF e.first > now THEN 0
              ELSE IF e.second < now THEN e.second - later(WindowStart, e.first)
              ELSE now - later(WindowStart, e.first)

\* C16: the hours reported for a Never, SinceInstant or Between machine are
\* the by-variant definition evaluated at one reading of the clock taken
\* during the call: 0; max(0, now - max(windowStart, boot)); and 0 if
\* boot > now, shutdown - max(windowStart, boot) if shutdown < now,
\* now - max(windowStart, boot) otherwise.
C16_HoursByVariant ==
    (Answered /\ Kind # "SINCE_SCRIPT_START") =>
        \E now \in {server_info.now, server_info.now2} :
            server_info.usage.hours = HoursAt(now)

\* C16's case: Between(0, 2) with the window starting at 0, asked after the
\* shutdown, gives its whole lifespan of 2 hours
C16_Witness ==
    /\ Answered /\ Kind = "BETWEEN_DATETIMES"
    /\ toml_machine.existence.first = 0 /\ toml_machine.existence.second = 2
    /\ WindowStart = 0
    /\ server_info.now = 3
    /\ server_info.usage.hours = 2

\* C17: for a SinceProcessStart machine the hours are now - windowStart when
\* windowStart > processStart and now - processStart otherwise, unclamped:
\* negative exactly when the later of windowStart and processStart is after
\* now (now being the clock read when the hours are computed).
C17_SinceProcessStartUnclamped ==
    (Answered /\ Kind = "SINCE_SCRIPT_START") =>
        LET now == server_info.now2
            from == IF WindowStart > script_start THEN WindowStart ELSE script_start
        IN /\ server_info.usage.hours = now - from
           /\ server_info.usage.hours < 0 <=> from > now

\* C17's case: the window starts after now and after the start of the
\* process, and the hours are negative
C17_Witness ==
    /\ Answered /\ Kind = "SINCE_SCRIPT_START"
    /\ WindowStart > script_start
    /\ WindowStart > server_info.now2
    /\ server_info.usage.hours = server_info.now2 - WindowStart
    /\ server_info.usage.hours < 0

Called == weight_call.status # "none"
HasShards == ~weights.is_none /\ DOMAIN weights.dict # {}

\* the tier set the lookup of the last call works in
SelectedShard ==
    weights.dict[selected_timestamp(DOMAIN weights.dict, weight_call.started)]

\* C3: with no table (None) or an empty table the lookup returns 1 for every
\* metric, amount and instant, and does not raise.
C3_NoTableGivesOne ==
    (Called /\ (weights.is_none \/ DOMAIN weights.dict = {}))
        => (weight_call.status = "returned" /\ weight_call.value = 1)

\* the activation the lookup is said to select: the greatest one that is not
\* after the instant, the earliest one when the instant precedes them all
MostRecentActivation(activations, instant) ==
    IF \E a \in activations : a <= instant
    THEN Max({a \in activations : a <= instant})
    ELSE Min(activations)

\* every tier set of the table has thresholds for the metric of the last call
AllShardsHaveThresholds ==
    \A a \in DOMAIN weights.dict :
        /\ weight_call.metric_tag \in DOMAIN weights.dict[a]
        /\ DOMAIN weights.dict[a][weight_call.metric_tag] # {}

\* C4: the lookup works in the tier set of the most recent activation that is
\* not after the instance's instant, and in the earliest one when the instant
\* precedes every activation: for every table of one or more activations
\* (each with thresholds for the metric) it returns what the threshold lookup
\* in that tier set returns.
C4_MostRecentShard ==
    (Called /\ HasShards /\ AllShardsHaveThresholds) =>
        LET shard == weights.dict[MostRecentActivation(DOMAIN weights.dict,
                                                       weight_call.started)]
            expected == metric_lookup(shard, weight_call.metric_tag,
                                      weight_call.metric_amount)
        IN /\ weight_call.status = "returned"
           /\ weight_call.value = expected.value

\* the selected tier set has a non-empty threshold table for the metric
HasThresholds ==
    /\ HasShards
    /\ weight_call.metric_tag \in DOMAIN SelectedShard
    /\ DOMAIN SelectedShard[weight_call.metric_tag] # {}

\* C5: within the selected tier set, with a non-empty threshold table for the
\* metric, the lookup returns the weight of the smallest threshold >= amount,
\* and the weight of the greatest threshold when the amount exceeds them all.
C5_SmallestThresholdAbove ==
    (Called /\ HasThresholds) =>
        LET table == SelectedShard[weight_call.metric_tag]
            above == {t \in DOMAIN table : t >= weight_call.metric_amount}
        IN /\ weight_call.status = "returned"
           /\ weight_call.value =
                 IF above # {} THEN table[Min(above)] ELSE table[Max(DOMAIN table)]

\* C5's case: tiers {2: w, 8: w'} with w # w' and amount 4 give w', the
\* weight of 8
C5_Witness ==
    /\ Called /\ HasThresholds
    /\ weight_call.metric_tag = "vcpus"
    /\ weight_call.metric_amount = 4
    /\ DOMAIN SelectedShard["vcpus"] = {2, 8}
    /\ SelectedShard["vcpus"][2] # SelectedShard["vcpus"][8]
    /\ weight_call.status = "returned"
    /\ weight_call.value = SelectedShard["vcpus"][8]

\* C6: the lookup never fails: when the selected tier set has no entry for
\* the metric, or the metric's threshold table is empty, it returns 1.
C6_MissingWeightGivesOne ==
    (Called /\ HasShards /\ ~HasThresholds)
        => (weight_call.status = "returned" /\ weight_call.value = 1)

(***************************************************************************)
(* The aggregation (SpecCollect)                                           *)
(***************************************************************************)
Collected == collect_call.status = "returned"
Usages == collect_call.value
P1 == CHOOSE p \in projects : p.id = "p1"
P2 == CHOOSE p \in projects : p.id = "p2"
\* the first project's tenant usage lists server_usages
Listed == cloud["p1"].usage.kind = "usage"
Recs == cloud["p1"].usage.server_usages
Servers == cloud["p1"].servers.servers
MetricSet == {Metrics[i] : i \in 1..Len(Metrics)}

\* hours x amount x weight of one usage record, the weight looked up at the
\* record's own started_at
Line(rec, metric) ==
    LET m == instance_metric(metric)
    IN rec.hours * rec[m]
         * get_instance_weight(weights, m, rec[m], rec.started_at).value

RECURSIVE SumOver(_, _)
SumOver(I, metric) ==
    IF I = {} THEN 0
    ELSE LET i == CHOOSE j \in I : TRUE
         IN Line(Recs[i], metric) + SumOver(I \ {i}, metric)

\* the tag values observed in the inventory, and the tag of an instance
ObservedTags ==
    {Servers[i].metadata[TagKey] :
        i \in {j \in DOMAIN Servers : TagKey \in DOMAIN Servers[j].metadata}}
InstanceTag(id) ==
    Servers[CHOOSE i \in DOMAIN Servers : Servers[i].id = id].metadata[TagKey]
Synthetic(t) == [P1 EXCEPT !.name = t]
Grouping == P1.is_simple_vm_project /\ ~simple_vm_tag.is_none

\* what C7 says of the synthetic projects: one per distinct tag value, each
\* total summing only the records of the instances that carry the tag
OnePerTag ==
    /\ {k \in DOMAIN Usages : k.id = P1.id} = {Synthetic(t) : t \in ObservedTags}
    /\ \A t \in ObservedTags : \A metric \in MetricSet :
          Usages[Synthetic(t)][metric] =
             SumOver({i \in DOMAIN Recs :
                         /\ Recs[i].hours > 0
                         /\ InstanceTag(Recs[i].instance_id) = t}, metric)

\* the total of all the records of the project, as a non-grouping project's
Combined(metric) == SumOver({i \in DOMAIN Recs : Recs[i].hours > 0}, metric)

C8_TotalsAtOwnStart ==
    (Collected /\ ~P1.is_simple_vm_project /\ Listed) =>
        /\ P1 \in DOMAIN Usages
        /\ \A metric \in MetricSet :
              Usages[P1][metric] =
                 SumOver({i \in DOMAIN Recs : Recs[i].hours > 0}, metric)

\* C8's case: two records with hours > 0, one of them started under another
\* tier set than the one active at the start of the statistics window
C8_Witness ==
    /\ Collected /\ ~P1.is_simple_vm_project /\ Listed
    /\ Len(Recs) = 2
    /\ \A i \in DOMAIN Recs : Recs[i].hours > 0
    /\ \E i \in DOMAIN Recs :
          get_instance_weight(weights, "vcpus", Recs[i].vcpus, Recs[i].started_at)
             # get_instance_weight(weights, "vcpus", Recs[i].vcpus,
                                   strftime(stats_start, FmtMicro))
    /\ Usages[P1]["total_vcpus_usage"] > 0

\* a record with the keys the aggregation reads
Complete(rec) == {"hours", "vcpus", "memory_mb", "started_at"} \subseteq DOMAIN rec

\* C9: a record that lacks a key is skipped and nothing else: the call
\* returns, the other records of the project make up its totals, and the
\* other project is still collected.  (Stated with no weight table, so that
\* no weight lookup is involved.)
C9_MalformedRecordSkipped ==
    (collect_call.status # "none" /\ weights.is_none
        /\ ~P1.is_simple_vm_project /\ Listed) =>
        /\ Collected
        /\ P1 \in DOMAIN Usages
        /\ \A metric \in MetricSet :
              Usages[P1][metric] =
                 SumOver({i \in DOMAIN Recs :
                             Complete(Recs[i]) /\ Recs[i].hours > 0}, metric)
        /\ cloud["p2"].usage.kind = "usage" => P2 \in DOMAIN Usages

\* C10: in a grouping project an instance without the tag, or a usage record
\* without an inventory entry, does not make the call fail: it returns and
\* holds the synthetic projects of the tagged instances.  (Stated with no
\* weight table and complete records.)
C10_UntaggedExcluded ==
    (collect_call.status # "none" /\ weights.is_none /\ Grouping /\ Listed
        /\ \A i \in DOMAIN Recs : InstanceKeys \subseteq DOMAIN Recs[i]) =>
        /\ Collected
        /\ {Synthetic(t) : t \in ObservedTags} \subseteq DOMAIN Usages

\* the memory total of the first project's records with hours > 0, the amount
\* being memory_mb divided by unit, both as the factor and in the tier lookup
RECURSIVE MemorySum(_, _)
MemorySum(I, unit) ==
    IF I = {} THEN 0
    ELSE LET i == CHOOSE j \in I : TRUE
             amount == Recs[i].memory_mb \div unit
         IN Recs[i].hours * amount
               * get_instance_weight(weights, "memory_mb", amount,
                                     Recs[i].started_at).value
            + MemorySum(I \ {i}, unit)

\* C18 as stated: the amount of the memory metric, as the factor and as the
\* magnitude of the tier lookup, is the memory in GiB (memory_mb / 1024).
C18_MemoryInGiB ==
    (Collected /\ ~P1.is_simple_vm_project /\ Listed) =>
        /\ P1 \in DOMAIN Usages
        /\ Usages[P1]["total_memory_mb_usage"] =
              MemorySum({i \in DOMAIN Recs : Recs[i].hours > 0}, 1024)

\* C18, amended: the amount of the memory metric, as the factor and as the
\* magnitude of the tier lookup, is the backend's memory_mb value in MiB,
\* undivided.
C18_MemoryInMiB ==
    (Collected /\ ~P1.is_simple_vm_project /\ Listed) =>
        /\ P1 \in DOMAIN Usages
        /\ Usages[P1]["total_memory_mb_usage"] =
              MemorySum({i \in DOMAIN Recs : Recs[i].hours > 0}, 1)

\* C18's case: one record of 8192 MiB with hours > 0 under a table whose
\* tiers weigh 8192 (MiB) and 8 (GiB) differently
C18_Witness ==
    /\ Collected /\ ~P1.is_simple_vm_project /\ Listed
    /\ Len(Recs) = 1 /\ Recs[1].hours > 0 /\ Recs[1].memory_mb = 8192
    /\ get_instance_weight(weights, "memory_mb", 8192, Recs[1].started_at)
          # get_instance_weight(weights, "memory_mb", 8, Recs[1].started_at)
    /\ Usages[P1]["total_memory_mb_usage"] =
          Recs[1].hours * 8192
             * get_instance_weight(weights, "memory_mb", 8192,
                                   Recs[1].started_at).value

\* the first project's tenant-usage answer is missing or empty: a payload
\* without tenant_usage (the simulated backend's {} for an unknown project id
\* is one), or an empty tenant_usage
NoTenantUsage == cloud["p1"].usage.kind \in {"no_key", "empty"}

\* C13: a project whose tenant-usage answer is missing or empty is skipped:
\* the call ends as it would for the other projects alone, and a result it
\* returns has no entry for the skipped project and has the entry of the
\* other project when that one has usage.
C13_EmptyAnswerSkipped ==
    (collect_call.status # "none" /\ NoTenantUsage) =>
        /\ collect_call = collect_usages(weights, <<P2>>, cloud, simple_vm_tag, <<>>)
        /\ Collected =>
              /\ \A k \in DOMAIN Usages : k.id # P1.id
              /\ cloud["p2"].usage.kind = "usage" <=> P2 \in DOMAIN Usages
              /\ P2 \in DOMAIN Usages =>
                    \A metric \in MetricSet :
                        LET rec == cloud["p2"].usage.server_usages[1]
                            m == instance_metric(metric)
                        IN Usages[P2][metric] =
                              rec.hours * rec[m]
                                 * get_instance_weight(weights, m, rec[m],
                                                       rec.started_at).value
        /\ weights.is_none => Collected

\* C13's case: the first project answers without tenant_usage, the second
\* has usage, and the result holds the second project alone
C13_Witness ==
    /\ Collected
    /\ cloud["p1"].usage.kind = "no_key"
    /\ cloud["p2"].usage.kind = "usage"
    /\ DOMAIN Usages = {P2}
    /\ Usages[P2]["total_vcpus_usage"] > 0

C23_TotalsNeverNegative ==
    /\ Collected =>
          \A k \in DOMAIN Usages : \A metric \in MetricSet : Usages[k][metric] >= 0
    /\ (Collected /\ ~P1.is_simple_vm_project /\ Listed) =>
          \A metric \in MetricSet : \A i \in DOMAIN Recs :
              Recs[i].hours > 0 => Usages[P1][metric] >= Line(Recs[i], metric)
    /\ (/\ collect_call.status # "none" /\ ~P1.is_simple_vm_project /\ Listed
        /\ cloud["p2"].usage.kind # "usage"
        /\ \A i \in DOMAIN Recs :
              "hours" \in DOMAIN Recs[i] /\ Recs[i].hours <= 0) =>
          /\ Collected
          /\ \A metric \in MetricSet : Usages[P1][metric] = 0

\* C23's case: a record with negative hours next to one with usage; the
\* total is that of the second record alone
C23_Witness ==
    /\ Collected /\ ~P1.is_simple_vm_project /\ Listed
    /\ Len(Recs) = 2
    /\ Recs[1].hours < 0 /\ Recs[2].hours > 0
    /\ Usages[P1]["total_vcpus_usage"] = Line(Recs[2], "total_vcpus_usage")
    /\ Usages[P1]["total_vcpus_usage"] > 0

\* the sum of a metric over the entries of the result with the project's id
RECURSIVE SumOfEntries(_, _)
SumOfEntries(K, metric) ==
    IF K = {} THEN 0
    ELSE LET k == CHOOSE x \in K : TRUE
         IN Usages[k][metric] + SumOfEntries(K \ {k}, metric)

\* every usage record is complete, and its instance is in the inventory and
\* carries the tag
AllTagged ==
    /\ \A i \in DOMAIN Servers : TagKey \in DOMAIN Servers[i].metadata
    /\ \A i \in DOMAIN Recs :
          /\ InstanceKeys \subseteq DOMAIN Recs[i]
          /\ \E j \in DOMAIN Servers : Servers[j].id = Recs[i].instance_id

\* C24: in a grouping project whose usage records all have a tagged
\* inventory entry, the totals of the synthetic projects add up, per metric,
\* to the total the records give for a non-grouping project.
C24_GroupsPartitionTotal ==
    (Collected /\ Grouping /\ Listed /\ AllTagged) =>
        \A metric \in MetricSet :
            SumOfEntries({k \in DOMAIN Usages : k.id = P1.id}, metric)
               = Combined(metric)

\* C24's case: two records with usage under two different tags
C24_Witness ==
    /\ Collected /\ Grouping /\ Listed /\ AllTagged
    /\ Len(Recs) = 2 /\ \A i \in DOMAIN Recs : Recs[i].hours > 0
    /\ InstanceTag(Recs[1].instance_id) # InstanceTag(Recs[2].instance_id)
    /\ Cardinality({k \in DOMAIN Usages : k.id = P1.id}) = 2
    /\ \A k \in DOMAIN Usages :
          k.id = P1.id =>
             /\ Usages[k]["total_vcpus_usage"] > 0
             /\ Usages[k]["total_vcpus_usage"] < Combined("total_vcpus_usage")

(***************************************************************************)
(* The simulated backend's fixture (SpecFixture)                           *)
(***************************************************************************)
\* C12: every query to the simulated backend, Compute.get for the tenant
\* usage and the server details included, answers from the fixture file as it
\* is when the query is made.
C12_QueryReparsesFixture ==
    [][dummy_file' = dummy_file =>
          cloud_answer'.value = answer(toml_loads(dummy_file), cloud_answer'.query)]_vars

(***************************************************************************)
(* The polling loop (SpecLoop)                                             *)
(***************************************************************************)
\* C11: an update() that raises in a polling cycle does not end the loop:
\* main is still running afterwards; only a failure at startup ends the
\* process.
C11_CycleFailureKeepsLoop ==
    (pc # "startup" /\ update_call.status = "raised") => Running

\* the response is a list whose entries all have their fields
WellFormed(response) ==
    /\ response.kind = "json"
    /\ \A i \in DOMAIN response.entries :
          LET x == response.entries[i]
          IN /\ {"resource_set_timestamp", "memory_mb", "vcpus"} \subseteq DOMAIN x
             /\ \A m \in {"memory_mb", "vcpus"} : \A j \in DOMAIN x[m] :
                   {"value", "weight"} \subseteq DOMAIN x[m][j]

\* the complete table of a well-formed response: per timestamp the last
\* entry with it, per metric and value the last tier with that value
TableOf(entries) ==
    LET last(I) == Max(I)
        tiers(t) == [v \in {t[j].value : j \in DOMAIN t} |->
                        t[last({j \in DOMAIN t : t[j].value = v})].weight]
    IN [ts \in {entries[i].resource_set_timestamp : i \in DOMAIN entries} |->
          LET x == entries[last({i \in DOMAIN entries :
                                    entries[i].resource_set_timestamp = ts})]
          IN [memory_mb |-> tiers(x.memory_mb), vcpus |-> tiers(x.vcpus)]]

\* C14: the weight table only ever changes to the complete table of one
\* well-formed refresh response, and a refresh whose request, parsing or
\* entries fail leaves the table as it was and the loop running.
C14_WeightsReplacedWhole ==
    [][/\ weights' # weights =>
            /\ WellFormed(weight_response')
            /\ weights' = DictWeights(TableOf(weight_response'.entries))
       /\ (/\ Running /\ pc = "top"
           /\ laps >= args.weight_update_frequency
           /\ args.weight_update_endpoint # ""
           /\ ~WellFormed(weight_response')) =>
              /\ weights' = weights
              /\ pc' = "sleep" /\ main_return'.status = "running"]_vars

\* C14's case: after a refresh that built a table of two resource sets, a
\* later refresh failed at its second entry and the table is still whole
C14_Witness ==
    /\ Running /\ pc = "sleep"
    /\ weight_response.kind = "json" /\ Len(weight_response.entries) = 2
    /\ WellFormed([kind |-> "json", entries |-> <<weight_response.entries[1]>>])
    /\ ~WellFormed(weight_response)
    /\ weights = DictWeights(TableOf(<<WeightEntry(1, 1), WeightEntry(3, 3)>>))

\* the total of all the records of a tenant usage with hours > 0
RECURSIVE TotalOf(_, _, _, _)
TotalOf(w, recs, I, metric) ==
    IF I = {} THEN 0
    ELSE LET i == CHOOSE j \in I : TRUE
             m == instance_metric(metric)
         IN recs[i].hours * recs[i][m]
               * get_instance_weight(w, m, recs[i][m], recs[i].started_at).value
            + TotalOf(w, recs, I \ {i}, metric)

\* C15: the gauges change only in an update() whose aggregation returned,
\* and every label set written then holds the totals over all the records
\* of its project; an update() that raises writes no gauge.
C15_GaugesFromWholeResults ==
    [][gauges' # gauges =>
          /\ update_call'.status = "returned"
          /\ collect_call'.status = "returned"
          /\ DOMAIN gauges \subseteq DOMAIN gauges'
          /\ \A l \in DOMAIN gauges' :
                (l \notin DOMAIN gauges \/ gauges'[l] # gauges[l]) =>
                   \E p \in projects' :
                      /\ labels(p) = l
                      /\ cloud'[p.id].usage.kind = "usage"
                      /\ LET recs == cloud'[p.id].usage.server_usages
                         IN \A metric \in MetricSet :
                               gauges'[l][metric] =
                                  TotalOf(weights', recs,
                                          {i \in DOMAIN recs : recs[i].hours > 0},
                                          metric)]_vars

\* C15's case: a cycle whose aggregation raised at the second project after
\* the first had been summed, and the gauges of the first project still hold
\* the totals of an earlier cycle
C15_Witness ==
    /\ update_call.status = "raised" /\ collect_call.status = "raised"
    /\ cloud["p1"].usage.kind = "usage" /\ Len(cloud["p1"].usage.server_usages) = 2
    /\ \A i \in 1..2 : Complete(cloud["p1"].usage.server_usages[i])
    /\ \E l \in DOMAIN gauges :
          /\ l.project_id = "p1"
          /\ gauges[l]["total_vcpus_usage"] > 0
          /\ gauges[l]["total_vcpus_usage"] #
                TotalOf(weights, cloud["p1"].usage.server_usages, {1, 2},
                        "total_vcpus_usage")


\* the iterations of main()'s loop before which the weights are refreshed:
\* the first, and every weight_update_frequency-th after it
RefreshIterations ==
    {i \in 1..(MaxIterations + 1) : (i - 1) % args.weight_update_frequency = 0}

\* C21: with a weight endpoint set, the loop requests the weights before the
\* iterations 1, N+1, 2N+1, ... of the polling loop and before no other, N
\* being the update frequency, so once per N cycles; after a request,
\* answered or failed, the lap counter restarts from 0 and has counted the
\* running iteration; with no endpoint no request is ever made and the lap
\* counter keeps its value
C21_RefreshEveryNthIteration ==
    [][iteration' # iteration =>
         IF args.weight_update_endpoint # ""
         THEN /\ (attempts' = attempts + 1) <=> (iteration' \in RefreshIterations)
              /\ attempts' \in {attempts, attempts + 1}
              /\ attempts' = Cardinality({i \in RefreshIterations : i <= iteration'})
              /\ (attempts' = attempts + 1) => laps' = 0 + 1
              /\ (attempts' = attempts) => laps' = laps + 1
         ELSE /\ attempts' = 0
              /\ laps' = laps]_vars

\* a loop with frequency 2 ran three iterations and asked for the weights
\* before the first and the third, the second of the requests failing
C21_Witness ==
    /\ args.weight_update_endpoint # ""
    /\ args.weight_update_frequency = 2
    /\ iteration = 3
    /\ attempts = 2
    /\ laps = 1
    /\ weight_response.kind = "unreachable"


\* the label sets of the projects of the last result of collect_usages
ResultLabels == {labels(p) : p \in DOMAIN usages}

\* an update() that returned: main goes back to the top of its loop
UpdateReturned == pc # "top" /\ pc' = "top"

\* C25: an update() writes the gauges of the label sets of its own result
\* only; every label set published before stays in the gauges, and keeps its
\* values unless the result of the cycle holds it, so that a project skipped
\* or no longer listed keeps its last values; no step removes a label set,
\* and no step other than an update() that returned changes a gauge
C25_OtherGaugesKept ==
    [][/\ \A l \in DOMAIN gauges :
             /\ l \in DOMAIN gauges'
             /\ (UpdateReturned /\ l \in ResultLabels') \/ gauges'[l] = gauges[l]
       /\ \A l \in DOMAIN gauges' \ DOMAIN gauges :
             UpdateReturned /\ l \in ResultLabels'
       /\ UpdateReturned =>
             \A p \in DOMAIN usages' : gauges'[labels(p)] = usages'[p]]_vars

\* two cycles after p1 was last in a result, its gauges still hold the totals
\* published then, next to the gauges the last cycle wrote for p2
C25_Witness ==
    /\ pc = "top" /\ iteration >= 2
    /\ update_call.status = "returned"
    /\ cloud["p1"].usage.kind = "empty"
    /\ \A p \in DOMAIN usages : p.id = "p2"
    /\ usages # <<>>
    /\ \E l \in DOMAIN gauges :
          l.project_id = "p1" /\ gauges[l]["total_vcpus_usage"] > 0


\* C22: whichever way the projects were collected (domain id given, domain
\* names given, neither), every label set of the gauges carries the name of
\* its project's domain in domain_name and the domain's id in domain_id.
C22_DomainLabelsNotSwapped ==
    \A l \in DOMAIN gauges :
       \E p \in ListedProjects :
          /\ p.id = l.project_id
          /\ l.domain_id = p.domain_id
          /\ l.domain_name = DomainName(p.domain_id)

====
